---- MODULE Spec2Model ----
(***************************************************************************)
(* Model of utilities/python/mtran-server/download_models.py: the catalog  *)
(* filter, the per-record download pipeline (download_file) and the        *)
(* thread-pool orchestrator (download_all), over a shared disk and three   *)
(* shared counters.                                                        *)
(***************************************************************************)
EXTENDS Integers, Sequences, FiniteSets, TLC

\* ------------------------------------------------------------------ bounds
\* longest catalog drawn in Init
MaxRecords == 2
\* largest --workers value drawn in Init
MaxWorkers == 2
\* longest record list handed to filter_records on its own
MaxList == 3
\* ------------------------------------------------------- program constants
MAX_RETRIES == 3

ARCHITECTURES == <<"base-memory", "base", "tiny">>

\* Python's None for an Optional[str] architecture
NoArch == "<None>"

\* ---------------------------------------------------------- file contents
\* A file's bytes: a plain payload, the zstd frame of a plain payload, bytes
\* that are no zstd frame, a truncated transfer, or nothing at all.
Bytes(kind, data) == [kind |-> kind, data |-> data]
Plain(x) == Bytes("plain", x)
Zst(x) == Bytes("zst", x)
Junk == Bytes("junk", "")
Partial == Bytes("partial", "")
Empty == Bytes("empty", "")

\* Python's None for an Optional[str] digest
None == [alg |-> "None", kind |-> "", data |-> ""]

\* hashlib.sha256 over the whole file: distinct bytes give distinct digests
calculate_sha256(bytes) == [alg |-> "sha256", kind |-> bytes.kind, data |-> bytes.data]

\* truthiness of an Optional[str]
Truthy(h) == h # None

\* ------------------------------------------------------------ file names
\* a name is the sequence of its characters
ZstExt == <<".", "z", "s", "t">>

StartsWith(s, p) == Len(s) >= Len(p) /\ SubSeq(s, 1, Len(p)) = p

\* str.replace(old, ""): every non-overlapping occurrence removed, left to right
RECURSIVE Replace(_, _)
Replace(s, old) ==
    IF s = <<>> THEN <<>>
    ELSE IF StartsWith(s, old)
         THEN Replace(SubSeq(s, Len(old) + 1, Len(s)), old)
         ELSE <<Head(s)>> \o Replace(Tail(s), old)

\* ------------------------------------------------------------ the records
Attachment(hash, filename, location) ==
    [hash |-> hash, filename |-> filename, location |-> location]

ModelRecord(name, architecture, src, tgt, attachment, dhash, modified) ==
    [name |-> name, architecture |-> architecture,
     source_language |-> src, target_language |-> tgt,
     attachment |-> attachment, decompressed_hash |-> dhash,
     last_modified |-> modified]

get_download_url(r) == <<"https://firefox-settings-attachments.cdn.mozilla.net/", r.attachment.location>>

get_language_pair(r) == <<r.source_language, "_", r.target_language>>

ModelName == <<"m", ".", "z", "s", "t">>
VocabName == <<"v", ".", "z", "s", "t">>

\* The catalog records Init draws from.
\*   RecA   well-formed, served intact
\*   RecB   a second version of RecA's file: same language pair and filename
\*   RecC   the CDN serves bytes that are not the catalogued attachment
\*   RecD   the catalogued decompressedHash is not the digest of the payload
\*   RecE   no decompressedHash in the catalog
\*   RecF   every fetch attempt fails, leaving a truncated file
\*   RecG   the catalogued attachment is no zstd frame
\*   RecT   another architecture;  RecN   no architecture at all
RecA == ModelRecord("A", "base", "en", "fr",
            Attachment(calculate_sha256(Zst("A")), ModelName, "loc/A"),
            calculate_sha256(Plain("A")), 1000)
RecB == ModelRecord("B", "base", "en", "fr",
            Attachment(calculate_sha256(Zst("B")), ModelName, "loc/B"),
            calculate_sha256(Plain("B")), 2000)
RecC == ModelRecord("C", "base", "fr", "en",
            Attachment(calculate_sha256(Zst("C")), ModelName, "loc/C"),
            calculate_sha256(Plain("C")), 3000)
RecD == ModelRecord("D", "base", "en", "de",
            Attachment(calculate_sha256(Zst("D")), VocabName, "loc/D"),
            calculate_sha256(Plain("D0")), 4000)
RecE == ModelRecord("E", "base", "de", "en",
            Attachment(calculate_sha256(Zst("E")), ModelName, "loc/E"),
            None, 5000)
RecF == ModelRecord("F", "base", "en", "es",
            Attachment(calculate_sha256(Zst("F")), ModelName, "loc/F"),
            calculate_sha256(Plain("F")), 6000)
RecG == ModelRecord("G", "base", "es", "en",
            Attachment(calculate_sha256(Junk), ModelName, "loc/G"),
            calculate_sha256(Plain("G")), 7000)
RecT == ModelRecord("T", "tiny", "en", "fr",
            Attachment(calculate_sha256(Zst("T")), VocabName, "loc/T"),
            calculate_sha256(Plain("T")), 8000)
RecN == ModelRecord("N", NoArch, "en", "fr",
            Attachment(calculate_sha256(Zst("N")), VocabName, "loc/N"),
            calculate_sha256(Plain("N")), 9000)

\* a record whose first fetch is never answered by the CDN
RecH == ModelRecord("H", "base", "es", "fr",
            Attachment(calculate_sha256(Zst("H")), ModelName, "loc/H"),
            calculate_sha256(Plain("H")), 9700)

\* a record whose architecture differs from a tag by case only
RecU == ModelRecord("U", "Base", "en", "fr",
            Attachment(calculate_sha256(Zst("U")), VocabName, "loc/U"),
            calculate_sha256(Plain("U")), 9500)

\* a record whose attachment is named without the ".zst" extension, and
\* without decompressedHash
PlainName == <<"m", ".", "b", "i", "n">>

RecP == ModelRecord("P", "base", "es", "de",
            Attachment(calculate_sha256(Zst("P")), PlainName, "loc/P"),
            None, 9900)

\* a record named without the extension too, whose fetch fails as RecF's does
RecQ == ModelRecord("Q", "base", "de", "fr",
            Attachment(calculate_sha256(Zst("Q")), PlainName, "loc/Q"),
            calculate_sha256(Plain("Q")), 9950)

RecordPool == <<RecA, RecB, RecC, RecD, RecE, RecF, RecG, RecT, RecN>>

\* What the CDN does with the fetches of one location: the outcome of each
\* attempt ("ok", "err" with nothing written, "cut" with a truncated file
\* left behind, "hang" with no answer ever) and the bytes an "ok" attempt
\* delivers.
CdnScript(location) ==
    CASE location = "loc/B" -> <<"err", "ok", "ok">>
      [] location = "loc/H" -> <<"hang", "ok", "ok">>
      [] location = "loc/F" -> <<"err", "cut", "cut">>
      [] location = "loc/Q" -> <<"err", "cut", "cut">>
      [] OTHER -> <<"ok", "ok", "ok">>

CdnBody(location) ==
    CASE location = "loc/A" -> Zst("A")
      [] location = "loc/B" -> Zst("B")
      [] location = "loc/C" -> Junk
      [] location = "loc/D" -> Zst("D")
      [] location = "loc/E" -> Zst("E")
      [] location = "loc/F" -> Zst("F")
      [] location = "loc/G" -> Junk
      [] location = "loc/T" -> Zst("T")
      [] location = "loc/H" -> Zst("H")
      [] location = "loc/P" -> Zst("P")
      [] location = "loc/Q" -> Zst("Q")
      [] OTHER -> Zst("N")

\* -------------------------------------------------------- the catalog body
\* the keys ModelRecord.from_dict and Attachment.from_dict subscript
RecordKeys == {"name", "schema", "version", "fileType", "attachment",
               "sourceLanguage", "targetLanguage", "id", "last_modified"}

AttachmentKeys == {"hash", "size", "filename", "location", "mimetype"}

\* dict.get(key, default)
Get(d, key, default) == IF key \in DOMAIN d THEN d[key] ELSE default

\* The JSON object the catalog holds for a record. A record without an
\* architecture or without a decompressed digest has no such key.
ToJson(r) ==
    LET keys == RecordKeys
                \cup (IF r.architecture = NoArch THEN {} ELSE {"architecture"})
                \cup (IF Truthy(r.decompressed_hash) THEN {"decompressedHash"} ELSE {})
        attachment == [a \in AttachmentKeys |->
                        CASE a = "hash" -> r.attachment.hash
                          [] a = "filename" -> r.attachment.filename
                          [] a = "location" -> r.attachment.location
                          [] OTHER -> ""]
    IN  [k \in keys |->
            CASE k = "name" -> r.name
              [] k = "attachment" -> attachment
              [] k = "architecture" -> r.architecture
              [] k = "sourceLanguage" -> r.source_language
              [] k = "targetLanguage" -> r.target_language
              [] k = "decompressedHash" -> r.decompressed_hash
              [] k = "last_modified" -> r.last_modified
              [] OTHER -> ""]

\* the same object with one key missing
Without(raw, key) == [k \in DOMAIN raw \ {key} |-> raw[k]]

\* the same object with one key missing from its attachment
WithoutOfAttachment(raw, key) ==
    [k \in DOMAIN raw |-> IF k = "attachment" THEN Without(raw[k], key) ELSE raw[k]]

\* data[key] raises KeyError on a missing key, in either from_dict
Decodable(raw) ==
    /\ RecordKeys \subseteq DOMAIN raw
    /\ AttachmentKeys \subseteq DOMAIN raw["attachment"]

\* Attachment.from_dict
attachment_from_dict(data) == Attachment(data["hash"], data["filename"], data["location"])

\* ModelRecord.from_dict
from_dict(data) ==
    ModelRecord(data["name"], Get(data, "architecture", NoArch),
                data["sourceLanguage"], data["targetLanguage"],
                attachment_from_dict(data["attachment"]),
                Get(data, "decompressedHash", None), data["last_modified"])

\* What the request to RECORDS_URL comes to: urlopen raises (no connection,
\* no answer within TIMEOUT), the body is no JSON, the body is a JSON array,
\* or the body is a JSON object.
Response(kind, body) == [kind |-> kind, body |-> body]

Document(raws) == Response("object", [k \in {"data"} |-> raws])

ErrorObject == Response("object", [k \in {"error"} |-> <<>>])

NetworkError == Response("URLError", [k \in {"error"} |-> <<>>])

NotJson == Response("JSONDecodeError", [k \in {"error"} |-> <<>>])

JsonArray == Response("array", [k \in {"error"} |-> <<>>])

\* mutant: the records are stored one by one as they are decoded
RECURSIVE DecodedPrefix(_)
DecodedPrefix(raws) ==
    IF raws = <<>> \/ ~Decodable(Head(raws)) THEN <<>>
    ELSE <<from_dict(Head(raws))>> \o DecodedPrefix(Tail(raws))

fetch_records_storing_as_decoded(response, before) ==
    IF response.kind # "object" THEN [ok |-> FALSE, records |-> before]
    ELSE LET data == Get(response.body, "data", <<>>)
         IN  [ok |-> \A i \in 1..Len(data) : Decodable(data[i]),
              records |-> DecodedPrefix(data)]

\* lines 303-320: the value returned and self.records afterwards. The list
\* comprehension is evaluated in full before the assignment, and every
\* exception on the way is caught.
fetch_records(response, before) ==
    IF response.kind # "object" THEN [ok |-> FALSE, records |-> before]
    ELSE LET data == Get(response.body, "data", <<>>)
         IN  IF \E i \in 1..Len(data) : ~Decodable(data[i])
             THEN [ok |-> FALSE, records |-> before]
             ELSE [ok |-> TRUE, records |-> [i \in 1..Len(data) |-> from_dict(data[i])]]

\* ---------------------------------------------------------------- the disk
model_dir == <<"models">>

lang_dir(r) == Append(model_dir, get_language_pair(r))

compressed_path(r) == Append(lang_dir(r), r.attachment.filename)

decompressed_path(r) == Append(lang_dir(r), Replace(r.attachment.filename, ZstExt))

\* a disk is a function from the paths of the existing files to their bytes
NoFiles == [p \in {} |-> Empty]

WriteFile(fs, p, bytes) == [q \in DOMAIN fs \cup {p} |-> IF q = p THEN bytes ELSE fs[q]]

\* Path.unlink(missing_ok=True)
Unlink(fs, p) == [q \in DOMAIN fs \ {p} |-> fs[q]]

\* mutant: the directory is made without its parents
Mkdir_without_parents(ds, r) == ds \cup {lang_dir(r)}

\* Path.mkdir(parents=True, exist_ok=True)
Mkdir(ds, r) == ds \cup {model_dir, lang_dir(r)}

\* urlretrieve(url, filepath) is given no timeout and the socket default is
\* none: the call waits for the answer for as long as it takes
UrlretrieveHasTimeout == FALSE

\* attempt k of the record's fetch never returns
Blocked(r, k) == CdnScript(r.attachment.location)[k] = "hang" /\ ~UrlretrieveHasTimeout

\* urllib.request.urlretrieve(url, filepath), attempt k (from 1) of a pipeline
urlretrieve(fs, r, k) ==
    LET outcome == CdnScript(r.attachment.location)[k]
        path == compressed_path(r)
    IN  [ok |-> outcome = "ok",
         files |-> CASE outcome = "ok" -> WriteFile(fs, path, CdnBody(r.attachment.location))
                     [] outcome = "cut" -> WriteFile(fs, path, Partial)
                     [] OTHER -> fs]

\* zstd.ZstdDecompressor().copy_stream: the input is opened, then the output
\* is opened "wb" (created or truncated), then the frames are copied. A
\* stream that is no zstd frame raises after the truncation; a stream that
\* ends early is copied as far as it goes.
decompress_with_python(fs, input, output) ==
    IF input \notin DOMAIN fs THEN [ok |-> FALSE, files |-> fs]
    ELSE LET opened == WriteFile(fs, output, Empty)
             src == opened[input]
         IN  CASE src.kind = "zst" ->
                    [ok |-> TRUE, files |-> WriteFile(opened, output, Plain(src.data))]
               [] src.kind = "partial" ->
                    [ok |-> TRUE, files |-> WriteFile(opened, output, Partial)]
               [] src.kind = "empty" -> [ok |-> TRUE, files |-> opened]
               [] OTHER -> [ok |-> FALSE, files |-> opened]

\* zstd -d -f input -o output: without the tool, with a missing input or with
\* the output being the input nothing is written; a stream that does not
\* decode leaves no output file behind.
decompress_with_command(fs, input, output, installed) ==
    IF ~installed \/ input \notin DOMAIN fs \/ input = output
    THEN [ok |-> FALSE, files |-> fs]
    ELSE IF fs[input].kind = "zst"
         THEN [ok |-> TRUE, files |-> WriteFile(fs, output, Plain(fs[input].data))]
         ELSE [ok |-> FALSE, files |-> Unlink(fs, output)]

\* mutant: the external command is tried when the library fails
decompress_zst_falling_back(fs, input, output, has_lib, installed) ==
    IF has_lib /\ decompress_with_python(fs, input, output).ok
    THEN decompress_with_python(fs, input, output)
    ELSE decompress_with_command(IF has_lib THEN decompress_with_python(fs, input, output).files
                                 ELSE fs,
                                 input, output, installed)

decompress_zst(fs, input, output, has_lib, installed) ==
    IF has_lib THEN decompress_with_python(fs, input, output)
    ELSE decompress_with_command(fs, input, output, installed)

\* ------------------------------------------------------------- the filter
\* mutant: the tags are compared without regard to case
Lower(tag) == IF tag = "Base" THEN "base" ELSE tag

filter_records_ignoring_case(recs, arch) ==
    SelectSeq(recs, LAMBDA r : Lower(r.architecture) = Lower(arch))

\* mutant: the first matching record is left out
filter_records_but_the_first(recs, arch) ==
    LET matching == SelectSeq(recs, LAMBDA r : r.architecture = arch)
    IN  IF matching = <<>> THEN <<>> ELSE Tail(matching)

\* lines 324-327: the list comprehension keeps the records r, in order, with
\* r.architecture == self.architecture
filter_records(recs, arch) == SelectSeq(recs, LAMBDA r : r.architecture = arch)

\* ------------------------------------------------------------------ state
VARIABLES
    response,       \* what the catalog endpoint answers to this process
    records,        \* self.records, the decoded catalog
    architecture,   \* self.architecture, the --arch-filter tag
    max_workers,    \* the --workers value
    HAS_ZSTANDARD,  \* whether "import zstandard" succeeded at process start
    zstd_installed, \* whether shutil.which("zstd") finds the tool
    files,          \* the files under model_dir and their bytes
    dirs,           \* the directories that exist
    downloaded, failed, skipped,   \* the three counters of ModelDownloader
    rerun,          \* whether the script has been started again on the same disk
    files0,         \* history: the files when this run of the script started
    previous,       \* history: the futures of the run before this one
    status,         \* the value main has returned, NotExited before
    phase,          \* where main and download_all stand
    filtered,       \* download_all's local list
    futures,        \* one future per submitted record: its state and exit, and as
                    \* history the output bytes download_file accepted
    queue,          \* the executor's work queue (indices into filtered)
    pc,             \* per worker thread: its position in download_file
    task,           \* per worker thread: the index of its record, 0 when idle
    attempt,        \* per worker thread: download_with_retry's loop variable
    leaving,        \* per worker thread: the return statement it is heading to
    loaded          \* per worker thread: the counter value read by "+= 1"

vars == <<response, records, architecture, max_workers, HAS_ZSTANDARD, zstd_installed,
          files, dirs, downloaded, failed, skipped, rerun, files0, previous, status,
          phase, filtered,
          futures, queue, pc, task, attempt, leaving, loaded>>

setup == <<response, architecture, max_workers, HAS_ZSTANDARD, zstd_installed>>
config == <<records, setup>>
counters == <<downloaded, failed, skipped>>
disk == <<files, dirs>>
process == <<rerun, files0, previous, status>>
pool == <<futures, queue, pc, task, attempt, leaving, loaded>>

\* mutant: the pool has as many threads as the largest pool there is
Workers_whatever_max_workers == 1..MaxWorkers

\* the threads of ThreadPoolExecutor(max_workers=max_workers)
Workers == 1..max_workers

\* the record a worker thread is running download_file on
rec(w) == filtered[task[w]]

\* ------------------------------------------------------------------- Init
\* catalogs: the subsequences of the pool of at most MaxRecords records
CatalogsOf(records_of) ==
    {[i \in 1..Len(ix) |-> records_of[ix[i]]] :
        ix \in UNION {{s \in [1..n -> 1..Len(records_of)] : \A i \in 1..(n - 1) : s[i] < s[i + 1]}
                      : n \in 0..MaxRecords}}

Catalogs == CatalogsOf(RecordPool)

\* a disk on which every decompressed target of the catalog holds old bytes
StaleFiles(recs) ==
    [p \in {decompressed_path(recs[i]) : i \in 1..Len(recs)} |-> Plain("old")]

StaleDirs(recs) ==
    IF recs = <<>> THEN {} ELSE {model_dir} \cup {lang_dir(recs[i]) : i \in 1..Len(recs)}

\* the records of a response that decode, for the files an earlier use of the
\* directory has left
Listed(resp) ==
    LET data == Get(resp.body, "data", <<>>)
    IN  IF resp.kind # "object" THEN <<>>
        ELSE [i \in 1..Len(SelectSeq(data, Decodable)) |-> from_dict(SelectSeq(data, Decodable)[i])]

\* the catalog answers: every catalog in full, no answer, bodies that do not
\* decode, and bodies in which one record lacks a key
Responses ==
    {Document([i \in 1..Len(c) |-> ToJson(c[i])]) : c \in Catalogs}
    \cup {NetworkError, NotJson, JsonArray, ErrorObject,
          Document(<<Without(ToJson(RecA), "name")>>),
          Document(<<ToJson(RecA), Without(ToJson(RecC), "id")>>),
          Document(<<ToJson(RecC), WithoutOfAttachment(ToJson(RecA), "hash")>>)}

\* main has not returned
NotExited == -1

\* process start: the arguments are parsed, ModelDownloader is constructed
Boot(responses) ==
    /\ response \in responses
    /\ records = <<>>
    /\ architecture \in {"base", "tiny"}
    /\ max_workers \in 1..MaxWorkers
    /\ HAS_ZSTANDARD \in BOOLEAN
    /\ zstd_installed \in BOOLEAN
    /\ \/ files = NoFiles /\ dirs = {}
       \/ /\ files = StaleFiles(Listed(response))
          /\ dirs = StaleDirs(Listed(response))
          /\ Listed(response) # <<>>
    /\ downloaded = 0 /\ failed = 0 /\ skipped = 0
    /\ rerun = FALSE
    /\ files0 = files
    /\ previous = <<>>
    /\ status = NotExited
    /\ phase = "main"
    /\ filtered = <<>>
    /\ futures = <<>>
    /\ queue = <<>>
    /\ pc = [w \in Workers |-> "idle"]
    /\ task = [w \in Workers |-> 0]
    /\ attempt = [w \in Workers |-> 0]
    /\ leaving = [w \in Workers |-> "-"]
    /\ loaded = [w \in Workers |-> 0]

Init == Boot(Responses)

\* -------------------------------------------------------------------- main
\* mutant: main goes on to download_all whatever fetch_records returned
FetchRecords_unchecked ==
    /\ phase = "main"
    /\ records' = fetch_records(response, records).records
    /\ phase' = "start"
    /\ UNCHANGED <<setup, disk, counters, process, filtered, pool>>

\* lines 566-567: "if not downloader.fetch_records(): return 1"
FetchRecords ==
    /\ phase = "main"
    /\ LET got == fetch_records(response, records)
       IN  /\ records' = got.records
           /\ phase' = IF got.ok THEN "start" ELSE "exited"
           /\ status' = IF got.ok THEN status ELSE 1
    /\ UNCHANGED <<setup, disk, counters, rerun, files0, previous, filtered, pool>>

\* mutant: a run that downloaded nothing is reported as an error
MainReturn_nothing_downloaded_is_error ==
    /\ phase = "returned"
    /\ status' = IF failed = 0 /\ downloaded > 0 THEN 0 ELSE 1
    /\ phase' = "exited"
    /\ UNCHANGED <<config, disk, counters, rerun, files0, previous, filtered, pool>>

\* line 572: "return 0 if downloader.failed == 0 else 1"
MainReturn ==
    /\ phase = "returned"
    /\ status' = IF failed = 0 THEN 0 ELSE 1
    /\ phase' = "exited"
    /\ UNCHANGED <<config, disk, counters, rerun, files0, previous, filtered, pool>>

\* ------------------------------------------------------------ download_all
\* mutant: the filter result replaces the stored record list
DownloadAllBegin_filtering_in_place ==
    /\ phase = "start"
    /\ filtered' = filter_records(records, architecture)
    /\ records' = filtered'
    /\ phase' = IF filtered' = <<>> THEN "returned" ELSE "submitting"
    /\ UNCHANGED <<setup, disk, counters, process, pool>>

\* lines 410-414: filter; nothing selected returns at once
DownloadAllBegin ==
    /\ phase = "start"
    /\ filtered' = filter_records(records, architecture)
    /\ phase' = IF filtered' = <<>> THEN "returned" ELSE "submitting"
    /\ UNCHANGED <<config, disk, counters, process, pool>>

\* line 421: executor.submit(self.download_file, record), one record at a time
Submit ==
    /\ phase = "submitting"
    /\ futures' = Append(futures, [state |-> "PENDING", exit |-> "-", output |-> Empty])
    /\ queue' = Append(queue, Len(futures) + 1)
    /\ phase' = IF Len(futures') = Len(filtered) THEN "waiting" ELSE "submitting"
    /\ UNCHANGED <<config, disk, counters, process, filtered, pc, task, attempt, leaving, loaded>>

AllFinished == \A i \in 1..Len(futures) : futures[i].state = "FINISHED"

\* mutant: download_all asks every future for its result, which raises again
\* what download_file raised
DownloadAllReturn_calling_result ==
    /\ phase = "waiting"
    /\ AllFinished
    /\ phase' = IF \E i \in 1..Len(futures) : futures[i].exit \in {"TypeError", "FileNotFoundError"}
                THEN "raised" ELSE "returned"
    /\ UNCHANGED <<config, disk, counters, process, filtered, pool>>

\* mutant: download_all returns without waiting for the futures
DownloadAllReturn_without_waiting ==
    /\ phase = "waiting"
    /\ phase' = "returned"
    /\ UNCHANGED <<config, disk, counters, process, filtered, pool>>

\* lines 423-437: as_completed has yielded every future, the executor is shut
\* down, the statistics are printed
DownloadAllReturn ==
    /\ phase = "waiting"
    /\ AllFinished
    /\ phase' = "returned"
    /\ UNCHANGED <<config, disk, counters, process, filtered, pool>>

\* the script is started again on the same disk: a new ModelDownloader
RunAgain ==
    /\ phase = "exited"
    /\ ~rerun
    /\ rerun' = TRUE
    /\ files0' = files
    /\ previous' = futures
    /\ records' = <<>>
    /\ downloaded' = 0 /\ failed' = 0 /\ skipped' = 0
    /\ status' = NotExited
    /\ phase' = "main"
    /\ filtered' = <<>>
    /\ futures' = <<>>
    /\ UNCHANGED <<setup, disk, queue, pc, task, attempt, leaving, loaded>>

\* ---------------------------------------------------------- worker threads
\* an idle worker thread takes the next work item off the queue; idle threads
\* are interchangeable, so the one of lowest index stands for them all
Take(w) ==
    /\ pc[w] = "idle"
    /\ \A v \in 1..(w - 1) : pc[v] # "idle"
    /\ queue # <<>>
    /\ task' = [task EXCEPT ![w] = Head(queue)]
    /\ queue' = Tail(queue)
    /\ futures' = [futures EXCEPT ![Head(queue)].state = "RUNNING"]
    /\ pc' = [pc EXCEPT ![w] = "mkdir"]
    /\ UNCHANGED <<config, disk, counters, process, phase, filtered, attempt, leaving, loaded>>

\* the thread moves on inside download_file
Goto(w, label) ==
    /\ pc' = [pc EXCEPT ![w] = label]
    /\ UNCHANGED <<task, futures, queue, leaving, loaded>>

\* the thread moves on with the output bytes it has accepted
Accept(w, label, bytes) ==
    /\ pc' = [pc EXCEPT ![w] = label]
    /\ futures' = [futures EXCEPT ![task[w]].output = bytes]
    /\ UNCHANGED <<task, queue, leaving, loaded>>

\* the thread heads for the counter update in front of a return statement
Leave(w, exit) ==
    /\ pc' = [pc EXCEPT ![w] = "load"]
    /\ leaving' = [leaving EXCEPT ![w] = exit]
    /\ UNCHANGED <<task, futures, queue, loaded>>

\* download_file is over (returned, or raised): the future is set, the thread idles
Finish(w, exit) ==
    /\ futures' = [futures EXCEPT ![task[w]].state = "FINISHED", ![task[w]].exit = exit]
    /\ pc' = [pc EXCEPT ![w] = "idle"]
    /\ task' = [task EXCEPT ![w] = 0]
    /\ leaving' = [leaving EXCEPT ![w] = "-"]
    /\ loaded' = [loaded EXCEPT ![w] = 0]
    /\ UNCHANGED queue

\* lines 343-349
MakeDir(w) ==
    /\ pc[w] = "mkdir"
    /\ dirs' = Mkdir(dirs, rec(w))
    /\ Goto(w, "exists")
    /\ UNCHANGED <<config, files, counters, process, phase, filtered, attempt>>

\* line 352
CheckExists(w) ==
    /\ pc[w] = "exists"
    /\ IF decompressed_path(rec(w)) \in DOMAIN files
       THEN Goto(w, "hash_existing")
       ELSE Goto(w, "download")
    /\ UNCHANGED <<config, disk, counters, process, phase, filtered, attempt>>

\* mutant: the existing file is compared with the attachment's digest
HashExisting_against_attachment(w) ==
    /\ pc[w] = "hash_existing"
    /\ IF decompressed_path(rec(w)) \notin DOMAIN files
       THEN Finish(w, "FileNotFoundError")
       ELSE IF calculate_sha256(files[decompressed_path(rec(w))]) = rec(w).attachment.hash
            THEN Leave(w, "Skipped")
            ELSE Goto(w, "download")
    /\ UNCHANGED <<config, disk, counters, process, phase, filtered, attempt>>

\* mutant: a target with stale content is counted as a failure
HashExisting_stale_is_failure(w) ==
    /\ pc[w] = "hash_existing"
    /\ IF decompressed_path(rec(w)) \notin DOMAIN files
       THEN Finish(w, "FileNotFoundError")
       ELSE IF calculate_sha256(files[decompressed_path(rec(w))]) = rec(w).decompressed_hash
            THEN Leave(w, "Skipped")
            ELSE Leave(w, "StaleTarget")
    /\ UNCHANGED <<config, disk, counters, process, phase, filtered, attempt>>

\* mutant: an existing target of a record with no digest is taken as verified
HashExisting_no_digest_is_match(w) ==
    /\ pc[w] = "hash_existing"
    /\ IF decompressed_path(rec(w)) \notin DOMAIN files
       THEN Finish(w, "FileNotFoundError")
       ELSE IF \/ ~Truthy(rec(w).decompressed_hash)
               \/ calculate_sha256(files[decompressed_path(rec(w))]) = rec(w).decompressed_hash
            THEN Leave(w, "Skipped")
            ELSE Goto(w, "download")
    /\ UNCHANGED <<config, disk, counters, process, phase, filtered, attempt>>

\* lines 353-359; hashing a file that is gone raises FileNotFoundError
HashExisting(w) ==
    /\ pc[w] = "hash_existing"
    /\ IF decompressed_path(rec(w)) \notin DOMAIN files
       THEN Finish(w, "FileNotFoundError")
       ELSE IF calculate_sha256(files[decompressed_path(rec(w))]) = rec(w).decompressed_hash
            THEN Leave(w, "Skipped")
            ELSE Goto(w, "download")
    /\ UNCHANGED <<config, disk, counters, process, phase, filtered, attempt>>

\* mutant: the first failed attempt is the last
Download_giving_up_at_once(w) ==
    /\ pc[w] = "download"
    /\ ~Blocked(rec(w), attempt[w] + 1)
    /\ LET got == urlretrieve(files, rec(w), attempt[w] + 1)
       IN  /\ files' = got.files
           /\ IF got.ok
              THEN Goto(w, "hash_compressed") /\ attempt' = [attempt EXCEPT ![w] = 0]
              ELSE Leave(w, "FetchFailed") /\ attempt' = [attempt EXCEPT ![w] = 0]
    /\ UNCHANGED <<config, dirs, counters, process, phase, filtered>>

\* lines 365-367 with 211-223: one pass of download_with_retry's loop
Download(w) ==
    /\ pc[w] = "download"
    /\ ~Blocked(rec(w), attempt[w] + 1)
    /\ LET got == urlretrieve(files, rec(w), attempt[w] + 1)
       IN  /\ files' = got.files
           /\ IF got.ok
              THEN Goto(w, "hash_compressed") /\ attempt' = [attempt EXCEPT ![w] = 0]
              ELSE IF attempt[w] < MAX_RETRIES - 1
                   THEN Goto(w, "download") /\ attempt' = [attempt EXCEPT ![w] = @ + 1]
                   ELSE Leave(w, "FetchFailed") /\ attempt' = [attempt EXCEPT ![w] = 0]
    /\ UNCHANGED <<config, dirs, counters, process, phase, filtered>>

\* lines 370-372
HashCompressed(w) ==
    /\ pc[w] = "hash_compressed"
    /\ IF compressed_path(rec(w)) \notin DOMAIN files
       THEN Finish(w, "FileNotFoundError")
       ELSE IF calculate_sha256(files[compressed_path(rec(w))]) # rec(w).attachment.hash
            THEN Goto(w, "unlink_unverified")
            ELSE Goto(w, "decompress")
    /\ UNCHANGED <<config, disk, counters, process, phase, filtered, attempt>>

\* mutant: after a wrong compressed digest the pipeline starts over
UnlinkUnverified_then_restart(w) ==
    /\ pc[w] = "unlink_unverified"
    /\ files' = Unlink(files, compressed_path(rec(w)))
    /\ Goto(w, "exists")
    /\ UNCHANGED <<config, dirs, counters, process, phase, filtered, attempt>>

\* mutant: the unverified file is left on disk
UnlinkUnverified_kept(w) ==
    /\ pc[w] = "unlink_unverified"
    /\ Leave(w, "CompressedMismatch")
    /\ UNCHANGED <<config, disk, counters, process, phase, filtered, attempt>>

\* line 373
UnlinkUnverified(w) ==
    /\ pc[w] = "unlink_unverified"
    /\ files' = Unlink(files, compressed_path(rec(w)))
    /\ Leave(w, "CompressedMismatch")
    /\ UNCHANGED <<config, dirs, counters, process, phase, filtered, attempt>>

\* line 378 and line 384
Decompress(w) ==
    /\ pc[w] = "decompress"
    /\ LET got == decompress_zst(files, compressed_path(rec(w)), decompressed_path(rec(w)),
                                 HAS_ZSTANDARD, zstd_installed)
       IN  /\ files' = got.files
           /\ IF ~got.ok THEN Goto(w, "unlink_undecoded")
              ELSE IF Truthy(rec(w).decompressed_hash) THEN Goto(w, "hash_decompressed")
              ELSE Accept(w, "cleanup", got.files[decompressed_path(rec(w))])
    /\ UNCHANGED <<config, dirs, counters, process, phase, filtered, attempt>>

\* mutant: the file that did not decompress is left on disk
UnlinkUndecoded_kept(w) ==
    /\ pc[w] = "unlink_undecoded"
    /\ Leave(w, "DecompressFailed")
    /\ UNCHANGED <<config, disk, counters, process, phase, filtered, attempt>>

\* line 379
UnlinkUndecoded(w) ==
    /\ pc[w] = "unlink_undecoded"
    /\ files' = Unlink(files, compressed_path(rec(w)))
    /\ Leave(w, "DecompressFailed")
    /\ UNCHANGED <<config, dirs, counters, process, phase, filtered, attempt>>

\* mutant: the decompressed output is accepted without its digest being compared
HashDecompressed_unchecked(w) ==
    /\ pc[w] = "hash_decompressed"
    /\ IF decompressed_path(rec(w)) \notin DOMAIN files
       THEN Finish(w, "FileNotFoundError")
       ELSE Accept(w, "cleanup", files[decompressed_path(rec(w))])
    /\ UNCHANGED <<config, disk, counters, process, phase, filtered, attempt>>

\* lines 385-387
HashDecompressed(w) ==
    /\ pc[w] = "hash_decompressed"
    /\ IF decompressed_path(rec(w)) \notin DOMAIN files
       THEN Finish(w, "FileNotFoundError")
       ELSE IF calculate_sha256(files[decompressed_path(rec(w))]) # rec(w).decompressed_hash
            THEN Goto(w, "unlink_both")
            ELSE Accept(w, "cleanup", files[decompressed_path(rec(w))])
    /\ UNCHANGED <<config, disk, counters, process, phase, filtered, attempt>>

\* line 388
UnlinkBothCompressed(w) ==
    /\ pc[w] = "unlink_both"
    /\ files' = Unlink(files, compressed_path(rec(w)))
    /\ Goto(w, "unlink_output")
    /\ UNCHANGED <<config, dirs, counters, process, phase, filtered, attempt>>

\* mutant: the decompressed file that failed verification is left on disk
UnlinkBothDecompressed_kept(w) ==
    /\ pc[w] = "unlink_output"
    /\ Leave(w, "DecompressedMismatch")
    /\ UNCHANGED <<config, disk, counters, process, phase, filtered, attempt>>

\* line 389
UnlinkBothDecompressed(w) ==
    /\ pc[w] = "unlink_output"
    /\ files' = Unlink(files, decompressed_path(rec(w)))
    /\ Leave(w, "DecompressedMismatch")
    /\ UNCHANGED <<config, dirs, counters, process, phase, filtered, attempt>>

\* mutant: the compressed file is kept after the verification
Cleanup_kept(w) ==
    /\ pc[w] = "cleanup"
    /\ Goto(w, "touch")
    /\ UNCHANGED <<config, disk, counters, process, phase, filtered, attempt>>

\* line 394
Cleanup(w) ==
    /\ pc[w] = "cleanup"
    /\ files' = Unlink(files, compressed_path(rec(w)))
    /\ Goto(w, "touch")
    /\ UNCHANGED <<config, dirs, counters, process, phase, filtered, attempt>>

\* Path.touch(mode=0o666, exist_ok=True) takes no last_modified keyword
TouchTakesLastModified == FALSE

\* line 397: the call raises TypeError before anything is touched
Touch(w) ==
    /\ pc[w] = "touch"
    /\ IF TouchTakesLastModified THEN Leave(w, "Completed") ELSE Finish(w, "TypeError")
    /\ UNCHANGED <<config, disk, counters, process, phase, filtered, attempt>>

\* mutant: the skip is counted as a failure
CounterOf_skip_as_failure(exit) ==
    CASE exit = "Completed" -> "downloaded"
      [] OTHER -> "failed"

\* the counter a return statement of download_file is preceded by
CounterOf(exit) ==
    CASE exit = "Skipped" -> "skipped"
      [] exit = "Completed" -> "downloaded"
      [] OTHER -> "failed"

\* "self.<counter> += 1" is a read of the attribute ...
CounterLoad(w) ==
    /\ pc[w] = "load"
    /\ loaded' = [loaded EXCEPT ![w] =
                    CASE CounterOf(leaving[w]) = "skipped" -> skipped
                      [] CounterOf(leaving[w]) = "downloaded" -> downloaded
                      [] OTHER -> failed]
    /\ pc' = [pc EXCEPT ![w] = "store"]
    /\ UNCHANGED <<config, disk, counters, process, phase, filtered, futures, queue, task, attempt, leaving>>

\* ... followed by a write of the value read plus one, with no lock held;
\* the return statement follows
CounterStore(w) ==
    /\ pc[w] = "store"
    /\ skipped' = IF CounterOf(leaving[w]) = "skipped" THEN loaded[w] + 1 ELSE skipped
    /\ downloaded' = IF CounterOf(leaving[w]) = "downloaded" THEN loaded[w] + 1 ELSE downloaded
    /\ failed' = IF CounterOf(leaving[w]) = "failed" THEN loaded[w] + 1 ELSE failed
    /\ Finish(w, leaving[w])
    /\ UNCHANGED <<config, disk, process, phase, filtered, attempt>>

Next ==
    \/ FetchRecords
    \/ DownloadAllBegin
    \/ Submit
    \/ DownloadAllReturn
    \/ MainReturn
    \/ \E w \in Workers : Take(w)
    \/ \E w \in Workers : MakeDir(w)
    \/ \E w \in Workers : CheckExists(w)
    \/ \E w \in Workers : HashExisting(w)
    \/ \E w \in Workers : Download(w)
    \/ \E w \in Workers : HashCompressed(w)
    \/ \E w \in Workers : UnlinkUnverified(w)
    \/ \E w \in Workers : Decompress(w)
    \/ \E w \in Workers : UnlinkUndecoded(w)
    \/ \E w \in Workers : HashDecompressed(w)
    \/ \E w \in Workers : UnlinkBothCompressed(w)
    \/ \E w \in Workers : UnlinkBothDecompressed(w)
    \/ \E w \in Workers : Cleanup(w)
    \/ \E w \in Workers : Touch(w)
    \/ \E w \in Workers : CounterLoad(w)
    \/ \E w \in Workers : CounterStore(w)

Spec == Init /\ [][Next]_vars

\* The script started a second time on the disk its first run left. Catalogs
\* in which two records have the same target are run by one worker here; what
\* their pipelines do to each other when they overlap is explored under Spec.
TargetsDistinct(recs) ==
    \A i, j \in 1..Len(recs) :
        decompressed_path(recs[i]) = decompressed_path(recs[j]) => i = j

InitRerun == Init /\ (max_workers = 1 \/ TargetsDistinct(Listed(response)))

NextRerun == Next \/ RunAgain

SpecRerun == InitRerun /\ [][NextRerun]_vars

\* The runs in which the CDN may leave a fetch unanswered. The interpreter
\* keeps running every thread that can take a step.
LivePool == <<RecA, RecC, RecD, RecF, RecH>>

ResponsesLive == {Document([i \in 1..Len(c) |-> ToJson(c[i])]) : c \in CatalogsOf(LivePool)}

InitLive == Boot(ResponsesLive)

SpecLive == InitLive /\ [][Next]_vars /\ WF_vars(Next)

\* The runs over catalogs in which an attachment may be named without the
\* ".zst" extension.
NamePool == <<RecA, RecC, RecD, RecF, RecP, RecQ>>

ResponsesNames == {Document([i \in 1..Len(c) |-> ToJson(c[i])]) : c \in CatalogsOf(NamePool)}

InitNames == Boot(ResponsesNames)

SpecNames == InitNames /\ [][Next]_vars

\* filter_records on its own: a downloader whose records are any list, with
\* repetitions, over records of every kind of tag, and any of the tags
FilterLists == UNION {[1..n -> {RecA, RecC, RecT, RecN, RecU}] : n \in 0..MaxList}

InitFilter ==
    /\ records \in FilterLists
    /\ response = Document([i \in 1..Len(records) |-> ToJson(records[i])])
    /\ architecture \in {ARCHITECTURES[i] : i \in 1..Len(ARCHITECTURES)}
    /\ max_workers = 1
    /\ HAS_ZSTANDARD = TRUE
    /\ zstd_installed = TRUE
    /\ files = NoFiles /\ dirs = {}
    /\ downloaded = 0 /\ failed = 0 /\ skipped = 0
    /\ rerun = FALSE
    /\ files0 = files
    /\ previous = <<>>
    /\ status = NotExited
    /\ phase = "start"
    /\ filtered = <<>>
    /\ futures = <<>>
    /\ queue = <<>>
    /\ pc = [w \in Workers |-> "idle"]
    /\ task = [w \in Workers |-> 0]
    /\ attempt = [w \in Workers |-> 0]
    /\ leaving = [w \in Workers |-> "-"]
    /\ loaded = [w \in Workers |-> 0]

\* filter_records called once more, on a downloader whose records are the
\* list the first call returned
FilterAgain ==
    /\ phase \in {"submitting", "returned"}
    /\ records' = filtered
    /\ filtered' = filter_records(filtered, architecture)
    /\ phase' = "refiltered"
    /\ UNCHANGED <<setup, disk, counters, process, pool>>

NextFilter == DownloadAllBegin \/ FilterAgain

SpecFilter == InitFilter /\ [][NextFilter]_vars

\* ------------------------------------------- download_all with one worker
\* With max_workers = 1 the single thread runs download_file on the records
\* one after the other, in submission order: the result is a function of
\* the disk at the start, the CDN and the decompressor.

\* download_with_retry from attempt k on
RECURSIVE download_with_retry(_, _, _)
download_with_retry(fs, r, k) ==
    LET got == urlretrieve(fs, r, k)
    IN  IF got.ok \/ k >= MAX_RETRIES THEN got
        ELSE download_with_retry(got.files, r, k + 1)

\* download_file run to its end with no other thread running
download_file(fs, r, has_lib, installed) ==
    LET c == compressed_path(r)
        d == decompressed_path(r)
        fetched == download_with_retry(fs, r, 1)
        unpacked == decompress_zst(fetched.files, c, d, has_lib, installed)
    IN  IF d \in DOMAIN fs /\ calculate_sha256(fs[d]) = r.decompressed_hash
        THEN [files |-> fs, exit |-> "Skipped"]
        ELSE IF ~fetched.ok
        THEN [files |-> fetched.files, exit |-> "FetchFailed"]
        ELSE IF calculate_sha256(fetched.files[c]) # r.attachment.hash
        THEN [files |-> Unlink(fetched.files, c), exit |-> "CompressedMismatch"]
        ELSE IF ~unpacked.ok
        THEN [files |-> Unlink(unpacked.files, c), exit |-> "DecompressFailed"]
        ELSE IF Truthy(r.decompressed_hash)
                /\ calculate_sha256(unpacked.files[d]) # r.decompressed_hash
        THEN [files |-> Unlink(Unlink(unpacked.files, c), d), exit |-> "DecompressedMismatch"]
        ELSE [files |-> Unlink(unpacked.files, c),
              exit |-> IF TouchTakesLastModified THEN "Completed" ELSE "TypeError"]

\* the exits of the records recs[i..], run one after the other from disk fs
RECURSIVE SequentialExits(_, _, _)
SequentialExits(fs, recs, i) ==
    IF i > Len(recs) THEN <<>>
    ELSE LET one == download_file(fs, recs[i], HAS_ZSTANDARD, zstd_installed)
         IN  <<one.exit>> \o SequentialExits(one.files, recs, i + 1)

\* the disk after the records recs[i..] were run one after the other
RECURSIVE SequentialFiles(_, _, _)
SequentialFiles(fs, recs, i) ==
    IF i > Len(recs) THEN fs
    ELSE SequentialFiles(download_file(fs, recs[i], HAS_ZSTANDARD, zstd_installed).files,
                         recs, i + 1)

\* how many of the exits are counted by the given counter
Count(exits, counter) ==
    Cardinality({i \in 1..Len(exits) :
                    exits[i] \notin {"TypeError", "FileNotFoundError"}
                    /\ CounterOf(exits[i]) = counter})

Exits == [i \in 1..Len(futures) |-> futures[i].exit]

\* the step model with one worker agrees with the sequential reading
OneWorkerIsSequential ==
    (phase = "returned" /\ max_workers = 1) =>
        /\ Exits = SequentialExits(files0, filtered, 1)
        /\ files = SequentialFiles(files0, filtered, 1)
        /\ downloaded = Count(Exits, "downloaded")
        /\ skipped = Count(Exits, "skipped")
        /\ failed = Count(Exits, "failed")

\* ================================================================ claims
\* the terminal state of the specification an exit of download_file stands for
TerminalState(exit) ==
    CASE exit = "Skipped" -> "Skipped"
      [] exit = "Completed" -> "Completed"
      [] exit \in {"FetchFailed", "CompressedMismatch", "DecompressFailed",
                   "DecompressedMismatch"} -> "Failed"
      [] OTHER -> "none"

Returned == phase = "returned" /\ filtered # <<>>

\* C1: whenever a thread is about to decompress its record's compressed file,
\* the bytes now at the compressed path have the digest attachment.hash: no
\* execution, under any interleaving of the workers, decompresses bytes whose
\* digest did not match.
C1_DecompressesOnlyVerifiedBytes ==
    \A w \in Workers :
        (pc[w] = "decompress" /\ compressed_path(rec(w)) \in DOMAIN files) =>
            calculate_sha256(files[compressed_path(rec(w))]) = rec(w).attachment.hash

\* C4: when download_all has returned, every pipeline has ended in one of
\* Skipped, Completed, Failed, and downloaded + skipped + failed equals the
\* number of selected records.
C4_EveryRecordCountedOnce ==
    Returned =>
        /\ \A i \in 1..Len(futures) : TerminalState(futures[i].exit) # "none"
        /\ downloaded + skipped + failed = Len(filtered)

\* C5: no increment is lost: when download_all has returned, each counter
\* equals the number of pipelines that reached the terminal state it counts.
C5_NoIncrementLost ==
    Returned =>
        /\ downloaded = Count(Exits, "downloaded")
        /\ skipped = Count(Exits, "skipped")
        /\ failed = Count(Exits, "failed")

\* C6: for the same records, the same disk at the start and the same CDN,
\* download_all ends with the counters a run with one worker ends with,
\* however the workers interleave.
C6_CountersAsWithOneWorker ==
    Returned =>
        LET alone == SequentialExits(files0, filtered, 1)
        IN  /\ downloaded = Count(alone, "downloaded")
            /\ skipped = Count(alone, "skipped")
            /\ failed = Count(alone, "failed")

\* the record is served intact by the CDN within the retries, a decompressor
\* is at hand, and the catalogued digests are those of the attachment and of
\* its payload
WellServed(r) ==
    /\ \E k \in 1..MAX_RETRIES : CdnScript(r.attachment.location)[k] = "ok"
    /\ calculate_sha256(CdnBody(r.attachment.location)) = r.attachment.hash
    /\ CdnBody(r.attachment.location).kind = "zst"
    /\ r.decompressed_hash = calculate_sha256(Plain(CdnBody(r.attachment.location).data))
    /\ HAS_ZSTANDARD \/ zstd_installed

\* C7: a one-record download_all on a record whose target does not exist yet,
\* whose fetch succeeds and whose digests match ends with downloaded = 1,
\* skipped = 0, failed = 0.
C7_OneGoodRecordIsDownloaded ==
    (/\ Returned
     /\ Len(filtered) = 1
     /\ decompressed_path(filtered[1]) \notin DOMAIN files0
     /\ WellServed(filtered[1])) =>
        (downloaded = 1 /\ skipped = 0 /\ failed = 0)

\* -------------------------------------------------------------- helpers
\* the thread w takes a step of download_file
Steps(w) == pc'[w] # pc[w] \/ attempt'[w] # attempt[w]

\* the files, among fs, below the record's language-pair directory
Under(fs, r) == {p \in DOMAIN fs : SubSeq(p, 1, 2) = lang_dir(r)}

Paths(r) == {compressed_path(r), decompressed_path(r)}

\* no other selected record uses a path of the i-th
Private(i) ==
    \A j \in 1..Len(filtered) : j # i => Paths(filtered[j]) \cap Paths(filtered[i]) = {}

Fetchable(r) == \E k \in 1..MAX_RETRIES : CdnScript(r.attachment.location)[k] = "ok"

\* C2: a pipeline that found the compressed digest wrong deletes the
\* compressed file, only then counts, and counts by writing failed (the value
\* it read plus one) and nothing else; a one-record download_all from an empty
\* language-pair directory on such a record ends with no file in that
\* directory and with downloaded = 0, skipped = 0, failed = 1.
C2_Pipeline(w) ==
    /\ (pc[w] = "hash_compressed" /\ Steps(w)
        /\ compressed_path(rec(w)) \in DOMAIN files
        /\ calculate_sha256(files[compressed_path(rec(w))]) # rec(w).attachment.hash)
          => (pc'[w] = "unlink_unverified" /\ counters' = counters)
    /\ (pc[w] = "unlink_unverified" /\ Steps(w))
          => /\ compressed_path(rec(w)) \notin DOMAIN files'
             /\ pc'[w] = "load" /\ leaving'[w] = "CompressedMismatch"
             /\ counters' = counters
    /\ (leaving[w] = "CompressedMismatch" /\ pc[w] = "load" /\ Steps(w))
          => (pc'[w] = "store" /\ loaded'[w] = failed /\ counters' = counters)
    /\ (leaving[w] = "CompressedMismatch" /\ pc[w] = "store" /\ Steps(w))
          => /\ failed' = loaded[w] + 1
             /\ downloaded' = downloaded /\ skipped' = skipped
             /\ futures'[task[w]].exit = "CompressedMismatch"

C2_OneRecord ==
    (/\ Len(filtered) = 1
     /\ Under(files0, filtered[1]) = {}
     /\ Fetchable(filtered[1])
     /\ calculate_sha256(CdnBody(filtered[1].attachment.location)) # filtered[1].attachment.hash)
    => /\ \A w \in Workers : pc[w] \in {"load", "store"} =>
            /\ leaving[w] = "CompressedMismatch"
            /\ Under(files, filtered[1]) = {}
       /\ \A w \in Workers : pc[w] \notin {"decompress", "hash_decompressed", "cleanup", "touch"}
       /\ Returned =>
            /\ futures[1].exit = "CompressedMismatch"
            /\ Under(files, filtered[1]) = {}
            /\ downloaded = 0 /\ skipped = 0 /\ failed = 1

C2_MismatchDeletesThenCountsFailed ==
    [][(\A w \in Workers : C2_Pipeline(w)) /\ C2_OneRecord']_vars

C2_Witness ==
    /\ Returned /\ Len(filtered) = 1 /\ files0 = NoFiles
    /\ futures[1].exit = "CompressedMismatch"
    /\ failed = 1

\* C3: a pipeline that found the decompressed digest wrong deletes the
\* compressed and the decompressed file and then counts by writing failed
\* (the value it read plus one) and nothing else; from its return on, neither
\* file exists, for a record whose paths no other selected record uses.
C3_Pipeline(w) ==
    /\ (pc[w] = "hash_decompressed" /\ Steps(w)
        /\ decompressed_path(rec(w)) \in DOMAIN files
        /\ calculate_sha256(files[decompressed_path(rec(w))]) # rec(w).decompressed_hash)
          => (pc'[w] = "unlink_both" /\ counters' = counters)
    /\ (pc[w] = "unlink_both" /\ Steps(w))
          => /\ compressed_path(rec(w)) \notin DOMAIN files'
             /\ pc'[w] = "unlink_output" /\ counters' = counters
    /\ (pc[w] = "unlink_output" /\ Steps(w))
          => /\ decompressed_path(rec(w)) \notin DOMAIN files'
             /\ pc'[w] = "load" /\ leaving'[w] = "DecompressedMismatch"
             /\ counters' = counters
    /\ (leaving[w] = "DecompressedMismatch" /\ pc[w] = "store" /\ Steps(w))
          => /\ failed' = loaded[w] + 1
             /\ downloaded' = downloaded /\ skipped' = skipped
             /\ futures'[task[w]].exit = "DecompressedMismatch"

C3_Returned ==
    \A i \in 1..Len(futures) :
        (futures[i].exit = "DecompressedMismatch" /\ Private(i)) =>
            /\ Truthy(filtered[i].decompressed_hash)
            /\ Paths(filtered[i]) \cap DOMAIN files = {}
            /\ failed >= 1
            /\ Len(filtered) = 1 => (downloaded = 0 /\ skipped = 0 /\ failed = 1)

Produced(i) ==
    /\ rerun
    /\ i \in 1..Len(previous)
    /\ previous[i].exit \in {"Completed", "TypeError"}

\* the second run's existence check of a record whose first-run output is
\* still at the target ends in the skip, with no file changed
C8_Check(w, any_record) ==
    (/\ pc[w] = "hash_existing" /\ Steps(w)
     /\ Produced(task[w])
     /\ any_record \/ Truthy(rec(w).decompressed_hash)
     /\ decompressed_path(rec(w)) \in DOMAIN files
     /\ files[decompressed_path(rec(w))] = previous[task[w]].output)
    => /\ pc'[w] = "load" /\ leaving'[w] = "Skipped"
       /\ files' = files

\* a one-record second run after a first run that accepted the output
C8_OneRecord(any_record) ==
    (/\ Len(filtered) = 1
     /\ Produced(1)
     /\ any_record \/ Truthy(filtered[1].decompressed_hash))
    => /\ files = files0
       /\ \A w \in Workers : pc[w] \in {"idle", "mkdir", "exists", "hash_existing", "load", "store"}
       /\ Returned => (futures[1].exit = "Skipped" /\ skipped = 1)

\* C8 as claimed: every record whose output a first run produced is
\* classified Skipped by the second run and is not downloaded again.
C8_EveryProducedRecordIsSkipped ==
    [][(\A w \in Workers : C8_Check(w, TRUE)) /\ C8_OneRecord(TRUE)']_vars

\* C8 as amended: every record that declares a decompressed digest and whose
\* output a first run produced is classified Skipped by the second run, when
\* the output is still at the target, and is not downloaded again.
C8_ProducedRecordWithDigestIsSkipped ==
    [][(\A w \in Workers : C8_Check(w, FALSE)) /\ C8_OneRecord(FALSE)']_vars

C8_Witness ==
    /\ Returned /\ Len(filtered) = 1
    /\ Produced(1)
    /\ Truthy(filtered[1].decompressed_hash)
    /\ futures[1].exit = "Skipped"
    /\ skipped = 1

\* C9: a pipeline that finds the decompressed target present with the
\* declared digest goes to the skip without having fetched anything, changes
\* no file and no directory, counts by writing skipped (the value it read
\* plus one) and nothing else, and returns success.
C9_Pipeline(w) ==
    /\ (pc'[w] = "exists" /\ Steps(w)) => (pc[w] = "mkdir" /\ files' = files)
    /\ (pc[w] = "mkdir" /\ Steps(w) /\ decompressed_path(rec(w)) \in DOMAIN files)
          => dirs' = dirs
    /\ (pc'[w] = "hash_existing" /\ Steps(w)) => (pc[w] = "exists" /\ disk' = disk)
    /\ (pc[w] = "hash_existing" /\ Steps(w)
        /\ decompressed_path(rec(w)) \in DOMAIN files
        /\ calculate_sha256(files[decompressed_path(rec(w))]) = rec(w).decompressed_hash)
          => /\ pc'[w] = "load" /\ leaving'[w] = "Skipped"
             /\ disk' = disk /\ counters' = counters
    /\ (leaving'[w] = "Skipped" /\ Steps(w)) => pc[w] \in {"hash_existing", "load"}
    /\ (leaving[w] = "Skipped" /\ Steps(w))
          => /\ disk' = disk
             /\ pc[w] = "load" => (loaded'[w] = skipped /\ counters' = counters)
             /\ pc[w] = "store" =>
                    /\ skipped' = loaded[w] + 1
                    /\ downloaded' = downloaded /\ failed' = failed
                    /\ futures'[task[w]].exit = "Skipped"

C9_OneRecord ==
    (/\ Len(filtered) = 1
     /\ decompressed_path(filtered[1]) \in DOMAIN files0
     /\ calculate_sha256(files0[decompressed_path(filtered[1])]) = filtered[1].decompressed_hash)
    => /\ files = files0
       /\ \A w \in Workers : attempt[w] = 0 /\ pc[w] # "download"
       /\ Returned =>
            /\ futures[1].exit = "Skipped"
            /\ skipped = 1 /\ downloaded = 0 /\ failed = 0

C9_ValidTargetIsSkippedUntouched ==
    [][(\A w \in Workers : C9_Pipeline(w)) /\ C9_OneRecord']_vars

C9_Witness ==
    /\ Returned
    /\ \E i \in 1..Len(futures) :
          /\ futures[i].exit = "Skipped"
          /\ decompressed_path(filtered[i]) \in DOMAIN files
          /\ calculate_sha256(files[decompressed_path(filtered[i])]) = filtered[i].decompressed_hash
    /\ files = files0
    /\ skipped >= 1

\* C10: in the state where download_all has returned, every submitted record
\* has a finished future, nothing is queued and no worker thread is inside
\* download_file, so that no counter can change any more.
C10_ReturnsAfterAllPipelinesEnded ==
    phase = "returned" =>
        /\ Len(futures) = Len(filtered)
        /\ AllFinished
        /\ queue = <<>>
        /\ \A w \in Workers : pc[w] = "idle" /\ task[w] = 0
        /\ ~ENABLED (\E w \in Workers : CounterStore(w))

C10_Witness ==
    /\ phase = "returned"
    /\ max_workers = 2
    /\ Len(futures) = 2
    /\ AllFinished

\* the record pipelines that have started and have not ended
InFlight == {i \in 1..Len(futures) : futures[i].state = "RUNNING"}

\* C11: at every moment of download_all(max_workers = k), the number of
\* pipelines that have started and not yet ended is at most k.
C11_InFlightAtMostMaxWorkers == Cardinality(InFlight) <= max_workers

C11_Witness ==
    /\ Cardinality(InFlight) = max_workers
    /\ queue # <<>>

\* the exits of download_file that are a failure of the record's pipeline:
\* the four counted ones and the exceptions raised inside it
FailureExits == {"FetchFailed", "CompressedMismatch", "DecompressFailed",
                 "DecompressedMismatch", "TypeError", "FileNotFoundError"}

SomeFailed == \E i \in 1..Len(futures) : futures[i].exit \in FailureExits

\* C12: once the pipeline of a record has failed, download_all does not
\* raise, the run is never stuck before download_all has returned, and when
\* download_all has returned every selected record has a finished future.
C12_FailureIsContained ==
    SomeFailed =>
        /\ phase # "raised"
        /\ phase \in {"submitting", "waiting"} => ENABLED Next
        /\ phase \in {"returned", "exited"} =>
              /\ Len(futures) = Len(filtered)
              /\ \A i \in 1..Len(futures) : futures[i].state = "FINISHED"

C12_Witness ==
    /\ phase = "returned"
    /\ \E i, j \in 1..Len(futures) :
          /\ i # j
          /\ futures[i].exit \in FailureExits
          /\ futures[j].state = "FINISHED"
          /\ futures[j].output # Empty

\* C13: if the pipeline of a selected record has failed, failed is not zero
\* once download_all has returned, and main returns a status that is not zero.
C13_FailureIsReported ==
    SomeFailed =>
        /\ phase \in {"returned", "exited"} => failed > 0
        /\ phase = "exited" => status # 0

\* the positions of the records of recs whose architecture is the tag
Matching(recs, tag) == {j \in 1..Len(recs) : recs[j].architecture = tag}

\* out is recs restricted to the positions in Matching, in the order of recs
IsSelection(out, recs, tag) ==
    \E f \in [1..Len(out) -> 1..Len(recs)] :
        /\ \A i \in 1..Len(out) : out[i] = recs[f[i]]
        /\ \A i \in 1..(Len(out) - 1) : f[i] < f[i + 1]
        /\ {f[i] : i \in 1..Len(out)} = Matching(recs, tag)

\* C14: the list filter_records returns is the catalog list restricted to the
\* records whose architecture is exactly the tag, in catalog order, each
\* matching position once; a record with no architecture is never in it.
C14_FilterIsExactSelection ==
    phase \in {"submitting", "returned"} =>
        /\ IsSelection(filtered, records, architecture)
        /\ \A i \in 1..Len(filtered) :
              filtered[i].architecture = architecture /\ filtered[i].architecture # NoArch

C14_Witness ==
    /\ phase = "submitting"
    /\ Len(filtered) = 2 /\ Len(records) = 3
    /\ filtered[1] # filtered[2]
    /\ \E i \in 1..Len(records) : records[i].architecture \in {"Base", NoArch}

\* C15: filtering the list filter_records returned once more, with the same
\* tag, returns that list unchanged.
C15_FilterIsIdempotent ==
    [][phase' = "refiltered" => filtered' = filtered]_vars

C15_Witness ==
    /\ phase = "refiltered"
    /\ Len(filtered) = 2

\* C16: when no record of the catalog has the tag, download_all returns at
\* once leaving the disk, the three counters, the futures, the queue and the
\* threads as they were (no pipeline, no fetch, no write), and main then
\* returns 0.
C16_NoMatchIsNoOp ==
    [][/\ (phase = "start" /\ Matching(records, architecture) = {}) =>
              (phase' = "returned" /\ UNCHANGED <<disk, counters, pool>>)
       /\ (phase = "returned" /\ Matching(records, architecture) = {}) =>
              (phase' = "exited" /\ status' = 0 /\ UNCHANGED <<disk, counters, pool>>)]_vars

C16_Witness ==
    /\ phase = "exited"
    /\ records # <<>>
    /\ Matching(records, architecture) = {}
    /\ status = 0
    /\ files = files0 /\ files # NoFiles
    /\ futures = <<>>

\* C17 as stated: after download_all has returned, the target directory exists.
C17_TargetDirectoryExists ==
    phase = "returned" => model_dir \in dirs

\* C17: after a download_all that selected at least one record has returned,
\* the target directory exists.
C17_TargetDirectoryExistsAfterARecord ==
    Returned => model_dir \in dirs

C17_Witness ==
    /\ Returned
    /\ files0 = NoFiles
    /\ ~rerun
    /\ model_dir \in dirs

\* the request fails, the body is not the JSON of an object, or a record of
\* the body lacks a key that from_dict subscripts
CatalogIsBad(resp) ==
    \/ resp.kind \in {"URLError", "JSONDecodeError", "array"}
    \/ /\ "data" \in DOMAIN resp.body
       /\ \E i \in 1..Len(resp.body["data"]) :
             \/ ~(RecordKeys \subseteq DOMAIN resp.body["data"][i])
             \/ ~(AttachmentKeys \subseteq DOMAIN resp.body["data"][i]["attachment"])

\* C18: on a failed request, on a body that does not decode and on a body in
\* which some record lacks a required field, fetch_records returns failure
\* (main returns 1 at once) and self.records is what it was before the call.
C18_BadCatalogFailsAndStoresNothing ==
    [][(phase = "main" /\ CatalogIsBad(response)) =>
          (phase' = "exited" /\ status' = 1 /\ records' = records)]_vars

C18_Witness ==
    /\ phase = "exited"
    /\ status = 1
    /\ records = <<>>
    /\ response.kind = "object"
    /\ "data" \in DOMAIN response.body
    /\ Len(response.body["data"]) = 2
    /\ Decodable(response.body["data"][1])
    /\ ~Decodable(response.body["data"][2])

\* C19: in a process whose fetch_records fails, the one step main takes is
\* returning a status that is not zero: download_all is not entered, no
\* future is made, no thread leaves idle, no file or directory is written
\* and no counter changes. (The only other step is the script being started
\* again.)
C19_FetchFailureAbortsTheRun ==
    [][~fetch_records(response, records).ok =>
          \/ /\ phase = "main" /\ phase' = "exited"
             /\ status' # 0 /\ status' # NotExited
             /\ UNCHANGED <<disk, counters, filtered, pool>>
          \/ /\ phase = "exited" /\ phase' = "main"
             /\ UNCHANGED disk]_vars

C19_Witness ==
    /\ phase = "exited"
    /\ ~fetch_records(response, <<>>).ok
    /\ status = 1
    /\ files = files0 /\ files # NoFiles
    /\ futures = <<>>

\* C20: every run whose catalog was fetched comes to the return of
\* download_all, every record pipeline having ended, whatever the CDN does
\* with the fetches.
C20_DownloadAllReturns ==
    <>(phase = "returned" /\ AllFinished)

\* the same for the catalogs every fetch of which the CDN answers or refuses
RunsEndWhenTheCdnAnswers ==
    (\A i \in 1..Len(Listed(response)) :
        \A k \in 1..MAX_RETRIES :
            CdnScript(Listed(response)[i].attachment.location)[k] # "hang")
    => <>(phase = "returned" /\ AllFinished)

\* the files at the paths of the record r, among fs
Own(fs, r) == [p \in Paths(r) \cap DOMAIN fs |-> fs[p]]

\* the i-th selected record has ended as it ends, and left at its paths what
\* it leaves, when download_file runs on it alone from the disk at the start
AsAlone(i) ==
    LET alone == download_file(files0, filtered[i], HAS_ZSTANDARD, zstd_installed)
    IN  /\ futures[i].exit = alone.exit
        /\ Own(files, filtered[i]) = Own(alone.files, filtered[i])

\* C21: when a download_all with several workers has returned, every selected
\* record has ended in the state and has left the files that its pipeline
\* run alone ends in and leaves, however the pipelines were interleaved.
C21_PipelinesAreIndependent ==
    (Returned /\ max_workers > 1) => \A i \in 1..Len(filtered) : AsAlone(i)

\* the same for the records whose paths no other selected record uses
IndependentWhenPathsArePrivate ==
    Returned => \A i \in 1..Len(filtered) : Private(i) => AsAlone(i)

\* C22: the Cleanup step deletes the compressed file and goes on to the
\* touch of the decompressed file, and the touch is followed by the
\* increment of downloaded in front of the return of Completed.
C22_CleanupThenTouchThenCompleted ==
    [][\A w \in Workers :
          /\ (pc[w] = "cleanup" /\ Steps(w)) =>
                (compressed_path(rec(w)) \notin DOMAIN files' /\ pc'[w] = "touch")
          /\ (pc[w] = "touch" /\ Steps(w)) =>
                (pc'[w] = "load" /\ leaving'[w] = "Completed")
          /\ (pc[w] = "store" /\ leaving[w] = "Completed" /\ Steps(w)) =>
                (downloaded' = loaded[w] + 1 /\ futures'[task[w]].exit = "Completed")]_vars

\* C23: a pass of download_with_retry's loop is one of at most MAX_RETRIES;
\* an attempt that succeeds is the last and leads to the compressed digest
\* check; the loop reports failure on the last attempt only, every attempt
\* having failed, and from there the pipeline only counts (failed is written
\* as the value read plus one) and returns.
C23_Pipeline(w) ==
    /\ (pc[w] = "download" /\ Steps(w)) =>
          /\ attempt[w] + 1 <= MAX_RETRIES
          /\ CdnScript(rec(w).attachment.location)[attempt[w] + 1] = "ok" =>
                (pc'[w] = "hash_compressed" /\ counters' = counters)
          /\ CdnScript(rec(w).attachment.location)[attempt[w] + 1] # "ok" =>
                /\ counters' = counters
                /\ IF attempt[w] + 1 < MAX_RETRIES
                   THEN pc'[w] = "download" /\ attempt'[w] = attempt[w] + 1
                   ELSE pc'[w] = "load" /\ leaving'[w] = "FetchFailed"
    /\ (leaving'[w] = "FetchFailed" /\ leaving[w] # "FetchFailed") =>
          /\ pc[w] = "download" /\ attempt[w] + 1 = MAX_RETRIES
          /\ \A k \in 1..MAX_RETRIES : CdnScript(rec(w).attachment.location)[k] # "ok"
    /\ (leaving[w] = "FetchFailed" /\ Steps(w)) =>
          /\ disk' = disk
          /\ pc[w] = "load" => (pc'[w] = "store" /\ loaded'[w] = failed /\ counters' = counters)
          /\ pc[w] = "store" =>
                /\ pc'[w] = "idle"
                /\ failed' = loaded[w] + 1
                /\ downloaded' = downloaded /\ skipped' = skipped
                /\ futures'[task[w]].exit = "FetchFailed"

C23_AtMostMaxRetriesFetches ==
    [][\A w \in Workers : C23_Pipeline(w)]_vars

C23_Witness ==
    /\ Returned
    /\ \E i \in 1..Len(futures) : futures[i].exit = "FetchFailed"
    /\ \E i \in 1..Len(futures) :
          /\ futures[i].exit # "FetchFailed"
          /\ CdnScript(filtered[i].attachment.location)[1] = "err"
    /\ failed >= 1

\* the place of a position of download_file in the order of its statements
Rank(label) ==
    CASE label = "mkdir" -> 1
      [] label = "exists" -> 2
      [] label = "hash_existing" -> 3
      [] label = "download" -> 4
      [] label = "hash_compressed" -> 5
      [] label = "unlink_unverified" -> 6
      [] label = "decompress" -> 7
      [] label = "unlink_undecoded" -> 8
      [] label = "hash_decompressed" -> 9
      [] label = "unlink_both" -> 10
      [] label = "unlink_output" -> 11
      [] label = "cleanup" -> 12
      [] label = "touch" -> 13
      [] label = "load" -> 14
      [] label = "store" -> 15
      [] OTHER -> 16

\* C24: each selected record is submitted once and taken by one thread once:
\* its future goes from PENDING to RUNNING to FINISHED and never back, no
\* two threads run the same record, a thread inside download_file only moves
\* forward through its statements, the one statement it may repeat being the
\* fetch with the attempt number going up, and what a finished future holds
\* is not changed by anything later in the run.
C24_EachPipelineRunsOnceForward ==
    [][/\ Len(futures') <= Len(filtered')
       /\ \A i \in 1..Len(futures) :
             /\ i \in 1..Len(futures')
             /\ futures[i].state = "PENDING" => futures'[i].state \in {"PENDING", "RUNNING"}
             /\ futures[i].state = "RUNNING" => futures'[i].state \in {"RUNNING", "FINISHED"}
             /\ futures[i].state = "FINISHED" => futures'[i] = futures[i]
             /\ Cardinality({w \in Workers : task'[w] = i}) <= 1
             /\ Cardinality({k \in 1..Len(queue') : queue'[k] = i})
                   = IF futures'[i].state = "PENDING" THEN 1 ELSE 0
       /\ \A w \in Workers :
             (pc[w] # "idle" /\ Steps(w)) =>
                /\ task'[w] \in {task[w], 0}
                /\ \/ Rank(pc'[w]) > Rank(pc[w])
                   \/ pc[w] = "download" /\ pc'[w] = "download" /\ attempt'[w] = attempt[w] + 1]_vars

C24_Witness ==
    /\ Returned
    /\ Len(filtered) = 2
    /\ \E i \in 1..Len(futures) : TerminalState(futures[i].exit) = "Failed"
    /\ \E i \in 1..Len(futures) : futures[i].exit = "FetchFailed"

\* C25: a pipeline whose decompression reports failure deletes the compressed
\* file, then counts by writing failed (the value it read plus one) and
\* nothing else, and returns; it passes neither the decompressed digest
\* check nor the Cleanup step.
C25_Pipeline(w) ==
    /\ (pc[w] = "decompress" /\ Steps(w)
        /\ ~decompress_zst(files, compressed_path(rec(w)), decompressed_path(rec(w)),
                           HAS_ZSTANDARD, zstd_installed).ok)
          => (pc'[w] = "unlink_undecoded" /\ counters' = counters)
    /\ (pc[w] = "unlink_undecoded" /\ Steps(w))
          => /\ compressed_path(rec(w)) \notin DOMAIN files'
             /\ pc'[w] = "load" /\ leaving'[w] = "DecompressFailed"
             /\ counters' = counters
    /\ (leaving[w] = "DecompressFailed" /\ Steps(w))
          => /\ disk' = disk
             /\ pc[w] = "load" => (pc'[w] = "store" /\ loaded'[w] = failed /\ counters' = counters)
             /\ pc[w] = "store" =>
                   /\ pc'[w] = "idle"
                   /\ failed' = loaded[w] + 1
                   /\ downloaded' = downloaded /\ skipped' = skipped
                   /\ futures'[task[w]].exit = "DecompressFailed"
                   /\ futures'[task[w]].output = Empty

C25_DecompressFailureDeletesThenCountsFailed ==
    [][\A w \in Workers : C25_Pipeline(w)]_vars

C25_Witness ==
    /\ Returned /\ Len(filtered) = 1
    /\ futures[1].exit = "DecompressFailed"
    /\ compressed_path(filtered[1]) \notin DOMAIN files
    /\ failed = 1 /\ downloaded = 0

\* C26: for a record that declares no decompressed digest, a decompression
\* that succeeds is followed at once by the Cleanup step, no digest of the
\* output being computed, and Cleanup by the touch and the return of
\* Completed.
C26_NoDigestGoesStraightToCompleted ==
    [][\A w \in Workers :
          (pc[w] # "idle" /\ ~Truthy(rec(w).decompressed_hash) /\ Steps(w)) =>
             /\ pc'[w] # "hash_decompressed"
             /\ (pc[w] = "decompress"
                 /\ decompress_zst(files, compressed_path(rec(w)), decompressed_path(rec(w)),
                                   HAS_ZSTANDARD, zstd_installed).ok)
                   => pc'[w] = "cleanup"
             /\ pc[w] = "cleanup" => pc'[w] = "touch"
             /\ pc[w] = "touch" => (pc'[w] = "load" /\ leaving'[w] = "Completed")]_vars

\* C27: a pipeline that finds its target absent, or present with a digest
\* other than the declared one, goes on to the fetch, leaving the disk and
\* the three counters as they are.
C27_Pipeline(w) ==
    /\ (pc[w] = "exists" /\ Steps(w) /\ decompressed_path(rec(w)) \notin DOMAIN files)
          => (pc'[w] = "download" /\ disk' = disk /\ counters' = counters)
    /\ (pc[w] = "exists" /\ Steps(w) /\ decompressed_path(rec(w)) \in DOMAIN files)
          => (pc'[w] = "hash_existing" /\ disk' = disk /\ counters' = counters)
    /\ (pc[w] = "hash_existing" /\ Steps(w)
        /\ decompressed_path(rec(w)) \in DOMAIN files
        /\ calculate_sha256(files[decompressed_path(rec(w))]) # rec(w).decompressed_hash)
          => /\ pc'[w] = "download" /\ attempt'[w] = 0
             /\ leaving'[w] = leaving[w]
             /\ disk' = disk /\ counters' = counters

C27_StaleOrAbsentTargetIsFetched ==
    [][\A w \in Workers : C27_Pipeline(w)]_vars

C27_Witness ==
    \E w \in Workers :
        /\ pc[w] = "download" /\ attempt[w] = 0
        /\ decompressed_path(rec(w)) \in DOMAIN files
        /\ files[decompressed_path(rec(w))] = Plain("old")
        /\ Len(filtered) = 1
        /\ failed = 0

\* the exits of download_file taken after decompress_zst was called
AfterDecompression == {"DecompressFailed", "DecompressedMismatch", "Completed", "TypeError"}

\* the exits of download_file taken after the Cleanup step
AfterCleanup == {"Completed", "TypeError"}

C29_DecompressorFixedAtStart ==
    [][/\ HAS_ZSTANDARD' = HAS_ZSTANDARD
       /\ \A w \in Workers :
            (pc[w] = "decompress" /\ Steps(w)) =>
               LET input == compressed_path(rec(w))
                   output == decompressed_path(rec(w))
                   used == IF HAS_ZSTANDARD
                           THEN decompress_with_python(files, input, output)
                           ELSE decompress_with_command(files, input, output, zstd_installed)
               IN  /\ files' = used.files
                   /\ pc'[w] = "unlink_undecoded" <=> ~used.ok]_vars

C29_Witness ==
    \E w \in Workers :
        /\ pc[w] = "unlink_undecoded"
        /\ HAS_ZSTANDARD /\ zstd_installed
        /\ compressed_path(rec(w)) \in DOMAIN files
        /\ decompressed_path(rec(w)) \in DOMAIN files
        /\ files[decompressed_path(rec(w))] = Empty

\* C30: from the return of fetch_records to the return of main the stored
\* record list is the list fetch_records decoded, and the list download_all
\* filtered is its selection, records and fields as decoded.
C30_RecordsAreNeverMutated ==
    phase # "main" =>
        /\ records = fetch_records(response, <<>>).records
        /\ phase # "start" => IsSelection(filtered, fetch_records(response, <<>>).records, architecture)

C30_Witness ==
    /\ phase = "exited"
    /\ Len(records) = 2 /\ Len(filtered) = 1
    /\ files # files0
    /\ failed = 1

\* C31: the statements of download_file that lead to "self.downloaded += 1"
\* are entered in one order only, each behind its check: the decompression
\* behind a compressed file whose digest is attachment.hash, the comparison
\* of the output behind a decompression that reported success, the cleanup
\* behind an output whose digest is the declared one when one is declared,
\* the touch behind the cleanup and the increment behind the touch; and
\* downloaded is written by no other statement.
C31_Pipeline(w) ==
    LET r == rec(w)
        decoded == decompress_zst(files, compressed_path(r), decompressed_path(r),
                                  HAS_ZSTANDARD, zstd_installed)
    IN  /\ pc'[w] = "decompress" =>
              /\ pc[w] = "hash_compressed"
              /\ compressed_path(r) \in DOMAIN files
              /\ calculate_sha256(files[compressed_path(r)]) = r.attachment.hash
        /\ pc'[w] = "hash_decompressed" =>
              /\ pc[w] = "decompress" /\ decoded.ok
              /\ Truthy(r.decompressed_hash)
        /\ pc'[w] = "cleanup" =>
              \/ pc[w] = "decompress" /\ decoded.ok /\ ~Truthy(r.decompressed_hash)
              \/ /\ pc[w] = "hash_decompressed"
                 /\ decompressed_path(r) \in DOMAIN files
                 /\ calculate_sha256(files[decompressed_path(r)]) = r.decompressed_hash
        /\ pc'[w] = "touch" => pc[w] = "cleanup"
        /\ (pc'[w] = "load" /\ leaving'[w] = "Completed") => pc[w] = "touch"

C31_DownloadedOnlyAfterEveryCheck ==
    [][/\ \A w \in Workers : Steps(w) => C31_Pipeline(w)
       /\ downloaded' # downloaded =>
             \E w \in Workers : /\ pc[w] = "store" /\ leaving[w] = "Completed"
                                /\ downloaded' = loaded[w] + 1]_vars

C31_Witness ==
    \E w \in Workers :
        /\ pc[w] = "touch"
        /\ Truthy(rec(w).decompressed_hash)
        /\ decompressed_path(rec(w)) \in DOMAIN files
        /\ calculate_sha256(files[decompressed_path(rec(w))]) = rec(w).decompressed_hash
        /\ compressed_path(rec(w)) \notin DOMAIN files

\* C32: when main has returned 0 the catalog fetch had succeeded and the
\* pipeline of every selected record has ended Skipped or Completed.
C32_StatusZeroOnlyWhenAllSucceeded ==
    (phase = "exited" /\ status = 0) =>
        /\ fetch_records(response, <<>>).ok
        /\ \A i \in 1..Len(futures) :
              futures[i].state = "FINISHED" /\ futures[i].exit \in {"Skipped", "Completed"}

\* the part of C32 that holds: status 0 is returned only after a successful
\* fetch and with no pipeline ended at a "return False"
StatusZeroOnlyWithoutCountedFailure ==
    (phase = "exited" /\ status = 0 /\ max_workers = 1) =>
        /\ fetch_records(response, <<>>).ok
        /\ \A i \in 1..Len(futures) :
              futures[i].exit \in {"Skipped", "Completed", "TypeError", "FileNotFoundError"}

\* C33: the compressed path and the decompressed path download_file computes
\* for a selected record are different paths.
C33_PathsDiffer ==
    \A i \in 1..Len(filtered) : compressed_path(filtered[i]) # decompressed_path(filtered[i])

\* what C33 is stated for: the Cleanup step leaves the file at the
\* decompressed path as it found it
CleanupKeepsTheOutput ==
    [][\A w \in Workers :
          (pc[w] = "cleanup" /\ Steps(w) /\ decompressed_path(rec(w)) \in DOMAIN files) =>
              /\ decompressed_path(rec(w)) \in DOMAIN files'
              /\ files'[decompressed_path(rec(w))] = files[decompressed_path(rec(w))]]_vars

\* the paths differ, and the cleanup keeps the output, when the name of the
\* attachment holds ".zst"
HasZstExt(name) == Replace(name, ZstExt) # name

PathsDifferWithZstExt ==
    \A i \in 1..Len(filtered) :
        HasZstExt(filtered[i].attachment.filename) =>
            compressed_path(filtered[i]) # decompressed_path(filtered[i])

CleanupKeepsTheOutputWithZstExt ==
    [][\A w \in Workers :
          (/\ pc[w] = "cleanup" /\ Steps(w)
           /\ HasZstExt(rec(w).attachment.filename)
           /\ decompressed_path(rec(w)) \in DOMAIN files) =>
              /\ decompressed_path(rec(w)) \in DOMAIN files'
              /\ files'[decompressed_path(rec(w))] = files[decompressed_path(rec(w))]]_vars

\* the exits of download_file at a "self.failed += 1; return False"
CountedFailures == {"FetchFailed", "CompressedMismatch", "DecompressFailed", "DecompressedMismatch"}

\* C34: once the pipeline of a record, whose paths no other selected record
\* uses, has ended Failed, no file exists at the record's compressed path.
C34_NoCompressedFileAfterFailure ==
    \A i \in 1..Len(futures) :
        (futures[i].state = "FINISHED" /\ futures[i].exit \in CountedFailures /\ Private(i)) =>
            compressed_path(filtered[i]) \notin DOMAIN files

\* the part of C34 that holds: the failures after the fetch has succeeded
NoCompressedFileAfterLaterFailure ==
    \A i \in 1..Len(futures) :
        (futures[i].state = "FINISHED" /\ futures[i].exit \in CountedFailures \ {"FetchFailed"} /\ Private(i)) =>
            compressed_path(filtered[i]) \notin DOMAIN files

\* nothing stands at the record's decompressed path but what stood there
\* when the process started
NothingWrittenAt(r) ==
    decompressed_path(r) \in DOMAIN files =>
        /\ decompressed_path(r) \in DOMAIN files0
        /\ files[decompressed_path(r)] = files0[decompressed_path(r)]

\* C35: once the pipeline of a record, whose paths no other selected record
\* uses, has ended Failed because decompress_zst returned False, no file the
\* decompression has written stands at the record's decompressed path.
C35_NoOutputAfterDecompressFailure ==
    \A i \in 1..Len(futures) :
        (futures[i].state = "FINISHED" /\ futures[i].exit = "DecompressFailed" /\ Private(i)) =>
            NothingWrittenAt(filtered[i])

\* the part of C35 that holds: the failures of the zstd command
NoOutputAfterCommandFailure ==
    \A i \in 1..Len(futures) :
        (/\ futures[i].state = "FINISHED" /\ futures[i].exit = "DecompressFailed"
         /\ Private(i) /\ ~HAS_ZSTANDARD) =>
            NothingWrittenAt(filtered[i])

\* C36: in every run of the script, the existence check of a record that
\* declares no decompressed digest, finding a file at the target, goes on to
\* the download; no pipeline of such a record ends Skipped, and skipped is
\* never incremented for one.
C36_NoDigestIsNeverSkipped ==
    [][/\ \A w \in Workers :
            (/\ pc[w] = "hash_existing" /\ Steps(w)
             /\ ~Truthy(rec(w).decompressed_hash)
             /\ decompressed_path(rec(w)) \in DOMAIN files) =>
                /\ pc'[w] = "download" /\ attempt'[w] = 0
                /\ disk' = disk /\ counters' = counters
       /\ \A i \in 1..Len(futures') :
            futures'[i].exit = "Skipped" => Truthy(filtered'[i].decompressed_hash)
       /\ skipped' # skipped =>
            \/ skipped' = 0
            \/ \E w \in Workers : /\ pc[w] = "store" /\ leaving[w] = "Skipped"
                                  /\ Truthy(rec(w).decompressed_hash)]_vars

\* in the second run the record is fetched again over the output of the first
C36_Witness ==
    \E w \in Workers :
        /\ rerun
        /\ pc[w] = "hash_compressed"
        /\ ~Truthy(rec(w).decompressed_hash)
        /\ decompressed_path(rec(w)) \in DOMAIN files0
        /\ files0[decompressed_path(rec(w))] = Plain(rec(w).name)
        /\ compressed_path(rec(w)) \in DOMAIN files
        /\ skipped = 0

\* the exits of download_file before decompress_zst is called
BeforeDecompression == {"FetchFailed", "CompressedMismatch"}

\* C37: once a pipeline that found a file at the decompressed target has
\* ended Failed at the download or at the comparison of the compressed
\* digest, the file stands at the target with the bytes it had.
C37_FailureBeforeDecompressionKeepsTheTarget ==
    \A i \in 1..Len(futures) :
        (/\ futures[i].state = "FINISHED" /\ futures[i].exit \in BeforeDecompression
         /\ decompressed_path(filtered[i]) \in DOMAIN files0) =>
            /\ decompressed_path(filtered[i]) \in DOMAIN files
            /\ files[decompressed_path(filtered[i])] = files0[decompressed_path(filtered[i])]

\* the part of C37 that holds: the records named with ".zst" whose paths no
\* other selected record uses
FailureBeforeDecompressionKeepsTheTargetWithZstExt ==
    \A i \in 1..Len(futures) :
        (/\ futures[i].state = "FINISHED" /\ futures[i].exit \in BeforeDecompression
         /\ HasZstExt(filtered[i].attachment.filename) /\ Private(i)
         /\ decompressed_path(filtered[i]) \in DOMAIN files0) =>
            /\ decompressed_path(filtered[i]) \in DOMAIN files
            /\ files[decompressed_path(filtered[i])] = files0[decompressed_path(filtered[i])]

====
